---- MODULE Spec2Model ----
(***************************************************************************)
(* NHSShiftBooker (src/nhs_shift_booker.py): one sequential driver that    *)
(* opens a browser session, logs in, and then polls the shift page and     *)
(* tries to book every row it scraped.                                     *)
(*                                                                         *)
(* The program is single-threaded; pc is its position.  One action is one  *)
(* call into the browser (driver / wait / element) together with the plain *)
(* statements that follow it up to the next such call.  The browser is the *)
(* environment: every call into it either returns or raises an Exception,  *)
(* and a KeyboardInterrupt may be delivered while the call is blocked.     *)
(* Logging and the other plain statements do not raise.                    *)
(***************************************************************************)
EXTENDS Integers, Sequences, FiniteSets, TLC

\* ---------------------------------------------------------------- config
\* Values imported from config (the module is not part of the sources; the
\* numbers are sample settings, the model is parametric in them).
MAX_RETRY_ATTEMPTS == 2
RETRY_DELAY_SECONDS == 30
SEARCH_INTERVAL_MINUTES == 5
MAX_SHIFTS_TO_BOOK == 1

\* ---------------------------------------------------------------- bounds
MaxCycles == 2        \* search cycles explored (the loop itself is while True)
MaxRows == 2          \* rows a row selector returns at most
MaxRestarts == 1      \* nested restarts explored
MaxInterrupts == 1    \* KeyboardInterrupts delivered in one run

\* ------------------------------------------------------------ the page
NoElem == "<no element>"

\* The five display fields of a row, in the order the code reads them.
Fields == <<"title", "location", "date", "time", "pay">>

\* A row element of the page: for each field, the text of the sub-element
\* the field's XPath finds, or NoElem when find_element raises.
RowElement(t, l, d, tm, p) ==
    [title |-> t, location |-> l, date |-> d, time |-> tm, pay |-> p]

AllRowElements ==
    { RowElement(t, l, d, tm, p) :
        t \in {"HCA", NoElem}, l \in {"Worcester", NoElem},
        d \in {"12 May", NoElem}, tm \in {"19:00", NoElem},
        p \in {"GBP 15", NoElem} }

RowFull == RowElement("HCA", "Worcester", "12 May", "19:00", "GBP 15")
RowBare == RowElement(NoElem, "Worcester", NoElem, "19:00", NoElem)

\* The result rows of a full run: the page lists the first n of a fixed
\* sequence of rows in which complete and incomplete rows alternate.
RunRows(n) == [i \in 1..n |-> IF i % 2 = 1 THEN RowFull ELSE RowBare]

SeqsUpTo(S, n) == UNION { [1..k -> S] : k \in 0..n }

\* What find_elements gives for one row selector: a list, or it raises.
Raises == [raised |-> TRUE, rows |-> <<>>]
Returns(rows) == [raised |-> FALSE, rows |-> rows]
\* The three row selectors of get_available_shifts, in listed order.
RowSelectors == 1..3
\* The four link selectors of navigate_to_shifts, in listed order.
LinkSelectors == 1..4
\* The four success indicators of book_shift, in listed order.
SuccessIndicators == 1..4

\* The row lists a row selector can return, by the site being driven: on a
\* full run the first n rows of RunRows; for get_available_shifts alone
\* every list of rows with every pattern of missing fields.
SiteRowLists(which) ==
    IF which = "run"
      THEN { RunRows(n) : n \in 0..MaxRows }
      ELSE SeqsUpTo(AllRowElements, MaxRows)

\* What find_elements can give for a row selector on that site.
SelectorResults(which) ==
    {Raises} \cup { Returns(rows) : rows \in SiteRowLists(which) }

\* ------------------------------------------------------------- state
VARIABLES
    pc,             \* position of the program
    depth,          \* run_continuous_booking frames suspended at the restart call
    prop,           \* exception propagating out of run_continuous_booking
    search_cycle,   \* search_cycle of the running frame
    driver,         \* self.driver: 0 is None, else the session
    open,           \* browser sessions created and not quit
    nSessions,      \* sessions created so far
    booked_shifts,  \* self.booked_shifts
    login_retry,    \* retry_count of the innermost login
    site,           \* which rows the site can show (fixed for a run)
    shifts,         \* the records of the running cycle
    idx,            \* position of the for loop over shifts (1-based)
    book_retry,     \* retry_count of the innermost book_shift
    attempts,       \* book_shift bodies entered in this top-level call
    clicks,         \* successful book/apply clicks in this top-level call
    appends,        \* entries appended in this top-level call
    indicator,      \* success indicator found (0: none), -1 before the search
    result,         \* value returned by the top-level book_shift
    navIdx,         \* xpath_options position in navigate_to_shifts
    navTried,       \* link selectors looked up in this call, in order
    navFound,       \* first link selector whose lookup returned (0: none)
    navClicked,     \* link selector whose click returned (0: none)
    navDirect,      \* the direct search URL was loaded in this call
    rowIdx,         \* selectors position in get_available_shifts
    rowReturned,    \* what each row selector tried in this call returned
    rowUsed,        \* row selector whose rows are parsed (0: none)
    cycle_outcome,  \* how the cycle that just ended ended (until the next starts)
    raised_from,    \* position whose Exception is being handled ("": none)
    kbd,            \* KeyboardInterrupts delivered so far
    slept           \* seconds slept by the last step

vars == <<pc, depth, prop, search_cycle, driver, open, nSessions, booked_shifts,
          login_retry, site, shifts, idx, book_retry, attempts, clicks, appends,
          indicator, result, navIdx, navTried, navFound, navClicked, navDirect,
          rowIdx, rowReturned, rowUsed, cycle_outcome, raised_from, kbd, slept>>

sessionVars == <<driver, open, nSessions>>
loginVars == <<login_retry>>
navVars == <<navIdx, navTried, navFound, navClicked, navDirect>>
rowVars == <<site, rowIdx, rowReturned, rowUsed>>
bookVars == <<book_retry, attempts, clicks, appends, indicator, result>>
cycleVars == <<shifts, idx>>
frameVars == <<depth, prop, search_cycle>>

NoResult == "<none>"

\* A KeyboardInterrupt can still be delivered.
Interruptible == kbd < MaxInterrupts

\* __init__ followed by main's call of run_continuous_booking.
Init ==
    /\ pc = "setup_driver"
    /\ depth = 0
    /\ prop = "none"
    /\ search_cycle = 0
    /\ driver = 0
    /\ open = {}
    /\ nSessions = 0
    /\ booked_shifts = <<>>
    /\ login_retry = 0
    /\ site = "run"
    /\ shifts = <<>>
    /\ idx = 0
    /\ book_retry = 0
    /\ attempts = 0
    /\ clicks = 0
    /\ appends = 0
    /\ indicator = -1
    /\ result = NoResult
    /\ navIdx = 0
    /\ navTried = <<>>
    /\ navFound = 0
    /\ navClicked = 0
    /\ navDirect = FALSE
    /\ rowIdx = 0
    /\ rowReturned = <<>>
    /\ rowUsed = 0
    /\ cycle_outcome = "none"
    /\ raised_from = ""
    /\ kbd = 0
    /\ slept = 0

\* ------------------------------------------- where a raise is handled
\* The call returned, or its Exception was handled on the spot.
NoRaise ==
    /\ kbd' = kbd
    /\ UNCHANGED raised_from

\* An Exception that leaves setup_driver or login reaches the outer
\* `except Exception` of run_continuous_booking.
RaiseToFatal ==
    /\ pc' = "fatal"
    /\ raised_from' = pc
    /\ kbd' = kbd

\* A KeyboardInterrupt raised in the try body of run_continuous_booking and
\* not swallowed on the way reaches `except KeyboardInterrupt`.
RaiseKeyboardInterrupt ==
    /\ Interruptible
    /\ pc' = "interrupted"
    /\ kbd' = kbd + 1
    /\ UNCHANGED raised_from

\* A KeyboardInterrupt raised under a bare `except:` is swallowed there.
Swallowed ==
    /\ Interruptible
    /\ kbd' = kbd + 1
    /\ UNCHANGED raised_from

\* ------------------------------------------------------- setup_driver
\* webdriver.Chrome(...) gives a new session, or the set-up raises and
\* setup_driver re-raises with self.driver left as it was.
setup_driver ==
    /\ pc = "setup_driver"
    /\ \/ /\ nSessions' = nSessions + 1
          /\ driver' = nSessions + 1
          /\ open' = open \cup {nSessions + 1}
          /\ pc' = "login_open"
          /\ login_retry' = 0
          /\ NoRaise
       \/ /\ RaiseToFatal
          /\ UNCHANGED <<sessionVars, loginVars>>
       \/ /\ RaiseKeyboardInterrupt
          /\ UNCHANGED <<sessionVars, loginVars>>
    /\ slept' = 0
    /\ UNCHANGED <<frameVars, cycle_outcome, booked_shifts, navVars, rowVars, bookVars, cycleVars>>

\* -------------------------------------------------------------- login
\* Variant: one retry too many.
LoginRetryAllowed_inclusive(retry_count) == retry_count <= MAX_RETRY_ATTEMPTS

\* if retry_count < MAX_RETRY_ATTEMPTS (the email field was not found)
LoginRetryAllowed(retry_count) == retry_count < MAX_RETRY_ATTEMPTS

loginFrame == <<frameVars, cycle_outcome, sessionVars, booked_shifts, navVars, rowVars,
                bookVars, cycleVars>>

\* driver.get(home page); time.sleep(3).  A raise reaches login's outer
\* handler, which logs and re-raises.
login_open ==
    /\ pc = "login_open"
    /\ \/ /\ pc' = "login_button" /\ NoRaise /\ slept' = 3
       \/ /\ RaiseToFatal /\ slept' = 0
       \/ /\ RaiseKeyboardInterrupt /\ slept' = 0
    /\ UNCHANGED <<loginFrame, loginVars>>

\* Wait for the 'Log in' button and click it, under a bare except.
login_button ==
    /\ pc = "login_button"
    /\ pc' = "login_iframe"
    /\ \/ /\ NoRaise /\ slept' = 2
       \/ /\ NoRaise /\ slept' = 0
       \/ /\ Swallowed /\ slept' = 0
    /\ UNCHANGED <<loginFrame, loginVars>>

\* Switch to the first iframe if there is one, under `except Exception`.
login_iframe ==
    /\ pc = "login_iframe"
    /\ \/ /\ pc' = "login_email" /\ NoRaise /\ slept' \in {0, 1}
       \/ /\ RaiseKeyboardInterrupt /\ slept' = 0
    /\ UNCHANGED <<loginFrame, loginVars>>

\* Find the email field and type the address.  Not found: retry while
\* allowed, else re-raise.
login_email ==
    /\ pc = "login_email"
    /\ \/ /\ pc' = "login_password" /\ NoRaise /\ slept' = 1
       \/ /\ LoginRetryAllowed(login_retry)
          /\ pc' = "login_again" /\ NoRaise /\ slept' = 0
       \/ /\ ~LoginRetryAllowed(login_retry)
          /\ RaiseToFatal /\ slept' = 0
       \/ /\ RaiseKeyboardInterrupt /\ slept' = 0
    /\ UNCHANGED <<loginFrame, loginVars>>

\* time.sleep(RETRY_DELAY_SECONDS); driver.refresh(); login(retry_count + 1).
\* The nested login's return value and exceptions pass through unchanged.
login_again ==
    /\ pc = "login_again"
    /\ \/ /\ pc' = "login_open" /\ NoRaise
          /\ login_retry' = login_retry + 1
          /\ slept' = RETRY_DELAY_SECONDS
       \/ /\ RaiseToFatal
          /\ slept' = RETRY_DELAY_SECONDS
          /\ UNCHANGED login_retry
       \/ /\ RaiseKeyboardInterrupt /\ slept' = 0
          /\ UNCHANGED login_retry
    /\ UNCHANGED loginFrame

\* Find the password field and type the password; a raise is re-raised.
login_password ==
    /\ pc = "login_password"
    /\ \/ /\ pc' = "login_submit" /\ NoRaise /\ slept' = 1
       \/ /\ RaiseToFatal /\ slept' = 0
       \/ /\ RaiseKeyboardInterrupt /\ slept' = 0
    /\ UNCHANGED <<loginFrame, loginVars>>

\* Click the submit button; a raise is re-raised.
login_submit ==
    /\ pc = "login_submit"
    /\ \/ /\ pc' = "login_finish" /\ NoRaise /\ slept' = 5
       \/ /\ RaiseToFatal /\ slept' = 0
       \/ /\ RaiseKeyboardInterrupt /\ slept' = 0
    /\ UNCHANGED <<loginFrame, loginVars>>

\* switch_to.default_content() under a bare except; time.sleep(3); every
\* login frame returns and run_continuous_booking reaches `while True`.
login_finish ==
    /\ pc = "login_finish"
    /\ \/ /\ pc' = "loop_top" /\ NoRaise /\ slept' = 3
       \/ /\ pc' = "loop_top" /\ Swallowed /\ slept' = 3
       \/ /\ RaiseKeyboardInterrupt /\ slept' = 0
    /\ UNCHANGED <<loginFrame, loginVars>>

\* ------------------------------------- run_continuous_booking handlers
\* except KeyboardInterrupt: log the final statistics.  The locals of the
\* interrupted calls are gone.
interrupted ==
    /\ pc = "interrupted"
    /\ pc' = "finally"
    /\ navIdx' = 0 /\ navTried' = <<>> /\ navFound' = 0 /\ navClicked' = 0
    /\ navDirect' = FALSE
    /\ rowIdx' = 0 /\ rowReturned' = <<>> /\ rowUsed' = 0
    /\ book_retry' = 0 /\ attempts' = 0 /\ clicks' = 0 /\ appends' = 0
    /\ indicator' = -1 /\ result' = NoResult
    /\ shifts' = <<>> /\ idx' = 0
    /\ slept' = 0
    /\ UNCHANGED <<frameVars, cycle_outcome, sessionVars, booked_shifts,
                   loginVars, site, raised_from, kbd>>

\* Variant: the handler logs in again on the session it has, without the
\* delay and without a new setup_driver.
restart_without_setup ==
    /\ pc = "fatal"
    /\ depth < MaxRestarts
    /\ depth' = depth + 1
    /\ search_cycle' = 0
    /\ pc' = "login_open"
    /\ slept' = 0
    /\ raised_from' = ""
    /\ UNCHANGED <<prop, kbd, sessionVars, booked_shifts, loginVars, navVars,
                   rowVars, bookVars, cycleVars, cycle_outcome>>

\* except Exception: log, time.sleep(10), self.run_continuous_booking().
\* The nested call starts with its own search_cycle = 0.  A KeyboardInterrupt
\* during the sleep is raised in the handler and leaves through finally.
restart ==
    /\ pc = "fatal"
    /\ \/ /\ depth < MaxRestarts
          /\ depth' = depth + 1
          /\ search_cycle' = 0
          /\ pc' = "setup_driver"
          /\ slept' = 10
          /\ raised_from' = ""
          /\ UNCHANGED <<prop, kbd>>
       \/ /\ Interruptible
          /\ kbd' = kbd + 1
          /\ prop' = "KeyboardInterrupt"
          /\ pc' = "finally"
          /\ slept' = 0
          /\ UNCHANGED <<depth, search_cycle, raised_from>>
    /\ UNCHANGED <<sessionVars, booked_shifts, loginVars, navVars, rowVars,
                   bookVars, cycleVars, cycle_outcome>>

\* close(): quit self.driver when it is set.
close(sessions) == IF driver # 0 THEN sessions \ {driver} ELSE sessions

\* finally: self.close().  Then the frame ends: the caller is main (depth 0)
\* or the handler of the frame that restarted, whose own finally is next.
finally ==
    /\ pc = "finally"
    /\ open' = close(open)
    /\ IF depth = 0
         THEN /\ pc' = IF prop = "none" THEN "returned" ELSE "crashed"
              /\ UNCHANGED depth
         ELSE /\ pc' = "finally"
              /\ depth' = depth - 1
    /\ search_cycle' = 0
    /\ slept' = 0
    /\ UNCHANGED <<prop, driver, nSessions, booked_shifts, loginVars, navVars,
                   rowVars, bookVars, cycleVars, cycle_outcome, raised_from,
                   kbd>>

\* ------------------------------------------------ the search loop
\* while True: search_cycle += 1 and the cycle banner.
loop_top ==
    /\ pc = "loop_top"
    /\ search_cycle < MaxCycles
    /\ \/ /\ search_cycle' = search_cycle + 1
          /\ pc' = "nav_lookup"
          /\ navIdx' = 1
          /\ NoRaise
       \/ /\ RaiseKeyboardInterrupt
          /\ UNCHANGED <<search_cycle, navIdx>>
    /\ cycle_outcome' = "none"
    /\ slept' = 0
    /\ UNCHANGED <<depth, prop, sessionVars, booked_shifts, loginVars, navTried,
                   navFound, navClicked, navDirect, rowVars, bookVars,
                   cycleVars>>

\* Variant: the cycle's body without its own try/except.
RaiseInCycle_unhandled ==
    /\ pc' = "fatal"
    /\ raised_from' = pc
    /\ kbd' = kbd

\* An Exception raised inside the cycle's try reaches its `except Exception`.
RaiseInCycle ==
    /\ pc' = "cycle_except"
    /\ raised_from' = pc
    /\ kbd' = kbd

\* -------------------------------------------------- navigate_to_shifts
navFrame == <<frameVars, cycle_outcome, sessionVars, booked_shifts, loginVars, rowVars,
              bookVars, cycleVars>>

\* `continue` in the loop over xpath_options; after the last option the
\* loop ends with found = False.
NavContinue ==
    IF navIdx < Len([i \in LinkSelectors |-> i])
      THEN pc' = "nav_lookup" /\ navIdx' = navIdx + 1
      ELSE pc' = "nav_direct" /\ navIdx' = navIdx

\* wait.until(element_to_be_clickable(xpath)) under the loop's bare except.
nav_lookup ==
    /\ pc = "nav_lookup"
    /\ navTried' = Append(navTried, navIdx)
    /\ \/ /\ pc' = "nav_click" /\ NoRaise /\ UNCHANGED navIdx
          /\ navFound' = IF navFound = 0 THEN navIdx ELSE navFound
       \/ /\ NavContinue /\ NoRaise /\ UNCHANGED navFound
       \/ /\ NavContinue /\ Swallowed /\ UNCHANGED navFound
    /\ slept' = 0
    /\ UNCHANGED <<navFrame, navClicked, navDirect>>

\* shifts_link.click(); found = True; break -- or the click raises and the
\* bare except continues with the next option.
nav_click ==
    /\ pc = "nav_click"
    /\ \/ /\ pc' = "nav_finish" /\ navClicked' = navIdx /\ NoRaise
          /\ UNCHANGED navIdx
       \/ /\ NavContinue /\ NoRaise /\ UNCHANGED navClicked
       \/ /\ NavContinue /\ Swallowed /\ UNCHANGED navClicked
    /\ slept' = 0
    /\ UNCHANGED <<navFrame, navTried, navFound, navDirect>>

\* if not found: driver.get(search URL).  A raise leaves navigate_to_shifts.
nav_direct ==
    /\ pc = "nav_direct"
    /\ \/ /\ pc' = "nav_finish" /\ navDirect' = TRUE /\ NoRaise
       \/ /\ RaiseInCycle /\ UNCHANGED navDirect
       \/ /\ RaiseKeyboardInterrupt /\ UNCHANGED navDirect
    /\ slept' = 0
    /\ UNCHANGED <<navFrame, navIdx, navTried, navFound, navClicked>>

\* time.sleep(3) and return.
nav_finish ==
    /\ pc = "nav_finish"
    /\ \/ /\ pc' = "search_location" /\ NoRaise /\ slept' = 3
       \/ /\ RaiseKeyboardInterrupt /\ slept' = 0
    /\ navIdx' = 0
    /\ navTried' = <<>>
    /\ navFound' = 0
    /\ navClicked' = 0
    /\ navDirect' = FALSE
    /\ UNCHANGED navFrame

\* ------------------------------------------------------- search_shifts
\* Three steps, each under its own `except Exception`, so no Exception
\* leaves search_shifts: fill the location, fill the shift type, click Search.
searchFrame == <<frameVars, cycle_outcome, sessionVars, booked_shifts, loginVars,
                 navVars, rowVars, bookVars, cycleVars>>

search_location ==
    /\ pc = "search_location"
    /\ \/ /\ pc' = "search_type" /\ NoRaise /\ slept' \in {0, 1}
       \/ /\ RaiseKeyboardInterrupt /\ slept' = 0
    /\ UNCHANGED searchFrame

search_type ==
    /\ pc = "search_type"
    /\ \/ /\ pc' = "search_button" /\ NoRaise /\ slept' \in {0, 1}
       \/ /\ RaiseKeyboardInterrupt /\ slept' = 0
    /\ UNCHANGED searchFrame

\* After it search_shifts returns and get_available_shifts starts its loop.
search_button ==
    /\ pc = "search_button"
    /\ \/ /\ pc' = "rows_lookup" /\ NoRaise /\ slept' \in {0, 4}
          /\ rowIdx' = 1
       \/ /\ RaiseKeyboardInterrupt /\ slept' = 0
          /\ UNCHANGED rowIdx
    /\ UNCHANGED <<frameVars, cycle_outcome, sessionVars, booked_shifts,
                   loginVars, navVars, site, rowReturned, rowUsed, bookVars,
                   cycleVars>>

\* ------------------------------------------------ get_available_shifts
Unknown == "Unknown"

\* Variant: a failed lookup leaves the field empty.
FieldText_empty(element, f) == IF element[f] = NoElem THEN "" ELSE element[f]

\* try: shift_info[f] = shift.find_element(...).text  except: 'Unknown'
FieldText(element, f) == IF element[f] = NoElem THEN Unknown ELSE element[f]

\* The record built from one row element (idx counts from 0).
ParseRow(element, index) ==
    [index |-> index, element |-> element,
     title |-> FieldText(element, "title"),
     location |-> FieldText(element, "location"),
     date |-> FieldText(element, "date"),
     time |-> FieldText(element, "time"),
     pay |-> FieldText(element, "pay")]

\* for idx, shift in enumerate(shift_elements): ... shifts.append(shift_info)
ParseRows(shift_elements) ==
    [i \in 1..Len(shift_elements) |-> ParseRow(shift_elements[i], i - 1)]

\* Variant: break as soon as find_elements returns, empty or not.
RowsBreak_always(shift_elements) == TRUE

\* if shift_elements: break
RowsBreak(shift_elements) == shift_elements # <<>>

\* One turn of the loop over selectors: find_elements under a bare except.
\* On break, or after the last selector, the rows are parsed and returned.
RowsTurn(found) ==
    /\ rowReturned' = Append(rowReturned, [selector |-> rowIdx, result |-> found])
    /\ IF ~found.raised /\ RowsBreak(found.rows)
         THEN /\ rowUsed' = rowIdx
              /\ shifts' = ParseRows(found.rows)
              /\ pc' = "cycle_shifts"
              /\ UNCHANGED rowIdx
         ELSE IF rowIdx < Len([i \in RowSelectors |-> i])
           THEN /\ rowIdx' = rowIdx + 1
                /\ pc' = "rows_lookup"
                /\ UNCHANGED <<rowUsed, shifts>>
           ELSE /\ shifts' = ParseRows(<<>>)
                /\ pc' = "cycle_shifts"
                /\ UNCHANGED <<rowUsed, rowIdx>>

rows_lookup ==
    /\ pc = "rows_lookup"
    /\ \/ /\ \E found \in SelectorResults(site) : RowsTurn(found)
          /\ NoRaise
       \/ /\ RowsTurn(Raises) /\ Swallowed
    /\ slept' = 0
    /\ UNCHANGED <<frameVars, cycle_outcome, sessionVars, booked_shifts,
                   loginVars, navVars, site, bookVars, idx>>

\* -------------------------------------------------- the cycle's body
\* Entering book_shift(shift) with retry_count = 0.
BookCall ==
    /\ pc' = "book_scroll"
    /\ book_retry' = 0
    /\ attempts' = 1
    /\ clicks' = 0
    /\ appends' = 0
    /\ indicator' = -1
    /\ result' = NoResult

BookIdle ==
    /\ book_retry' = 0
    /\ attempts' = 0
    /\ clicks' = 0
    /\ appends' = 0
    /\ indicator' = -1
    /\ result' = NoResult

\* The statistics block ends the try body; the records are dropped.
CycleEnd(outcome) ==
    /\ pc' = "cycle_sleep"
    /\ cycle_outcome' = outcome
    /\ shifts' = <<>>
    /\ idx' = 0

\* if not shifts: ... else: for shift in shifts: book_shift(shift)
cycle_shifts ==
    /\ pc = "cycle_shifts"
    /\ \/ /\ shifts = <<>>
          /\ CycleEnd("completed") /\ BookIdle /\ NoRaise
       \/ /\ shifts # <<>>
          /\ idx' = 1 /\ BookCall /\ NoRaise
          /\ UNCHANGED <<shifts, cycle_outcome>>
       \/ /\ RaiseKeyboardInterrupt
          /\ UNCHANGED <<bookVars, cycleVars, cycle_outcome>>
    /\ rowIdx' = 0
    /\ rowReturned' = <<>>
    /\ rowUsed' = 0
    /\ slept' = 0
    /\ UNCHANGED <<frameVars, sessionVars, booked_shifts, loginVars, navVars,
                   site>>

\* ---------------------------------------------------------- book_shift
\* Variant: one retry too many.
BookRetryAllowed_inclusive(retry_count) == retry_count <= MAX_RETRY_ATTEMPTS

\* if retry_count < MAX_RETRY_ATTEMPTS
BookRetryAllowed(retry_count) == retry_count < MAX_RETRY_ATTEMPTS

bookFrame == <<frameVars, cycle_outcome, sessionVars, loginVars, navVars, rowVars, cycleVars>>

\* The attempt failed before a click: retry while allowed, else return False.
BookAttemptFailed ==
    /\ IF BookRetryAllowed(book_retry)
         THEN pc' = "book_retry" /\ UNCHANGED result
         ELSE pc' = "book_return" /\ result' = "False"
    /\ NoRaise

\* driver.execute_script(scrollIntoView); time.sleep(1).  A raise reaches
\* book_shift's outer `except Exception`.
book_scroll ==
    /\ pc = "book_scroll"
    /\ \/ /\ pc' = "book_click" /\ NoRaise /\ slept' = 1 /\ UNCHANGED result
       \/ /\ BookAttemptFailed /\ slept' = 0
       \/ /\ RaiseKeyboardInterrupt /\ slept' = 0 /\ UNCHANGED result
    /\ UNCHANGED <<bookFrame, booked_shifts, book_retry, attempts, clicks,
                   appends, indicator>>

\* Find the book/apply button in the row and click it; time.sleep(2).
book_click ==
    /\ pc = "book_click"
    /\ \/ /\ pc' = "book_confirm" /\ NoRaise /\ slept' = 2
          /\ clicks' = clicks + 1
          /\ UNCHANGED result
       \/ /\ BookAttemptFailed /\ slept' = 0 /\ UNCHANGED clicks
       \/ /\ RaiseKeyboardInterrupt /\ slept' = 0 /\ UNCHANGED <<clicks, result>>
    /\ UNCHANGED <<bookFrame, booked_shifts, book_retry, attempts, appends,
                   indicator>>

\* time.sleep(RETRY_DELAY_SECONDS); return self.book_shift(details, retry_count + 1)
book_retry_call ==
    /\ pc = "book_retry"
    /\ \/ /\ pc' = "book_scroll" /\ NoRaise
          /\ slept' = RETRY_DELAY_SECONDS
          /\ book_retry' = book_retry + 1
          /\ attempts' = attempts + 1
       \/ /\ RaiseKeyboardInterrupt /\ slept' = 0
          /\ UNCHANGED <<book_retry, attempts>>
    /\ UNCHANGED <<bookFrame, booked_shifts, clicks, appends, indicator, result>>

\* Variant: the confirmation step without its bare except: its Exception
\* reaches book_shift's outer handler.
book_confirm_unguarded ==
    /\ pc = "book_confirm"
    /\ \/ /\ pc' = "book_success" /\ NoRaise /\ slept' = 2 /\ UNCHANGED result
       \/ /\ BookAttemptFailed /\ slept' = 0
    /\ UNCHANGED <<bookFrame, booked_shifts, book_retry, attempts, clicks,
                   appends, indicator>>

\* Wait for a confirmation button and click it, under a bare except.
book_confirm ==
    /\ pc = "book_confirm"
    /\ pc' = "book_success"
    /\ \/ /\ NoRaise /\ slept' = 2
       \/ /\ NoRaise /\ slept' = 0
       \/ /\ Swallowed /\ slept' = 0
    /\ UNCHANGED <<bookFrame, booked_shifts, bookVars>>

\* The entry book_shift appends for shift_details.
BookedEntry(shift_details) ==
    [title |-> shift_details.title, date |-> shift_details.date, time |-> "now"]

\* Variant: insert(0, ...) instead of append.
BookAppend_front(list, shift_details) == <<BookedEntry(shift_details)>> \o list

\* self.booked_shifts.append({...})
BookAppend(list, shift_details) == Append(list, BookedEntry(shift_details))

\* Variant: no indicator found means not booked.
book_success_confirmed_only ==
    /\ pc = "book_success"
    /\ indicator' \in SuccessIndicators \cup {0}
    /\ NoRaise
    /\ IF indicator' = 0
         THEN /\ result' = "False"
              /\ UNCHANGED <<booked_shifts, appends>>
         ELSE /\ result' = "True"
              /\ booked_shifts' = BookAppend(booked_shifts, shifts[idx])
              /\ appends' = appends + 1
    /\ pc' = "book_return"
    /\ slept' = 0
    /\ UNCHANGED <<bookFrame, book_retry, attempts, clicks>>

\* Look for the success indicators in order, each find_element under a bare
\* except.  The first one found appends and returns True; when none is
\* found the code appends and returns True as well.
book_success ==
    /\ pc = "book_success"
    /\ \/ /\ indicator' \in SuccessIndicators \cup {0}
          /\ NoRaise
       \/ /\ indicator' \in (SuccessIndicators \ {1}) \cup {0}
          /\ Swallowed
    /\ booked_shifts' = BookAppend(booked_shifts, shifts[idx])
    /\ appends' = appends + 1
    /\ result' = "True"
    /\ pc' = "book_return"
    /\ slept' = 0
    /\ UNCHANGED <<bookFrame, book_retry, attempts, clicks>>

\* Back in the for loop: log the outcome, time.sleep(2), next record; after
\* the last record the statistics block.
book_return ==
    /\ pc = "book_return"
    /\ \/ /\ idx < Len(shifts)
          /\ idx' = idx + 1 /\ BookCall /\ NoRaise /\ slept' = 2
          /\ UNCHANGED <<shifts, cycle_outcome>>
       \/ /\ idx = Len(shifts)
          /\ CycleEnd("completed") /\ BookIdle /\ NoRaise /\ slept' = 2
       \/ /\ RaiseKeyboardInterrupt /\ slept' = 0
          /\ UNCHANGED <<bookVars, cycleVars, cycle_outcome>>
    /\ UNCHANGED <<frameVars, sessionVars, booked_shifts, loginVars, navVars,
                   rowVars>>

\* except Exception as e: log "Continuing to next cycle..."
cycle_except ==
    /\ pc = "cycle_except"
    /\ CycleEnd("raised") /\ BookIdle
    /\ rowIdx' = 0 /\ rowReturned' = <<>> /\ rowUsed' = 0
    /\ navIdx' = 0 /\ navTried' = <<>> /\ navFound' = 0 /\ navClicked' = 0
    /\ navDirect' = FALSE
    /\ raised_from' = ""
    /\ slept' = 0
    /\ UNCHANGED <<frameVars, sessionVars, booked_shifts, loginVars, site, kbd>>

\* time.sleep(SEARCH_INTERVAL_MINUTES * 60), then the next turn of the loop.
cycle_sleep ==
    /\ pc = "cycle_sleep"
    /\ \/ /\ pc' = "loop_top" /\ NoRaise
          /\ slept' = SEARCH_INTERVAL_MINUTES * 60
       \/ /\ RaiseKeyboardInterrupt /\ slept' = 0
    /\ UNCHANGED <<frameVars, cycle_outcome, sessionVars, booked_shifts, loginVars, navVars,
                   rowVars, bookVars, cycleVars>>

Startup ==
    \/ setup_driver
    \/ login_open
    \/ login_button
    \/ login_iframe
    \/ login_email
    \/ login_again
    \/ login_password
    \/ login_submit
    \/ login_finish

Handlers ==
    \/ interrupted
    \/ restart
    \/ finally

Cycle ==
    \/ loop_top
    \/ nav_lookup
    \/ nav_click
    \/ nav_direct
    \/ nav_finish
    \/ search_location
    \/ search_type
    \/ search_button
    \/ rows_lookup
    \/ cycle_shifts
    \/ book_scroll
    \/ book_click
    \/ book_retry_call
    \/ book_confirm
    \/ book_success
    \/ book_return
    \/ cycle_except
    \/ cycle_sleep

Next == Startup \/ Cycle \/ Handlers

Spec == Init /\ [][Next]_vars

\* The program is one thread that always takes its next step: every call
\* into the browser returns or raises (the waits have a timeout).
FairSpec == Spec /\ WF_vars(Next)

\* get_available_shifts on its own, on a site that shows every kind of row.
InitShifts ==
    /\ pc = "rows_lookup"
    /\ depth = 0
    /\ prop = "none"
    /\ search_cycle = 1
    /\ driver = 1
    /\ open = {1}
    /\ nSessions = 1
    /\ booked_shifts = <<>>
    /\ login_retry = 0
    /\ site = "all"
    /\ shifts = <<>>
    /\ idx = 0
    /\ book_retry = 0
    /\ attempts = 0
    /\ clicks = 0
    /\ appends = 0
    /\ indicator = -1
    /\ result = NoResult
    /\ navIdx = 0
    /\ navTried = <<>>
    /\ navFound = 0
    /\ navClicked = 0
    /\ navDirect = FALSE
    /\ rowIdx = 1
    /\ rowReturned = <<>>
    /\ rowUsed = 0
    /\ cycle_outcome = "none"
    /\ raised_from = ""
    /\ kbd = 0
    /\ slept = 0

SpecShifts == InitShifts /\ [][rows_lookup]_vars

\* ====================================================== the claims
StartupPcs ==
    {"setup_driver", "login_open", "login_button", "login_iframe", "login_email",
     "login_again", "login_password", "login_submit", "login_finish"}

BookPcs == {"book_scroll", "book_click", "book_retry", "book_confirm", "book_success"}

CyclePcs ==
    {"loop_top", "nav_lookup", "nav_click", "nav_direct", "nav_finish",
     "search_location", "search_type", "search_button", "rows_lookup", "cycle_shifts", "book_return",
     "cycle_except", "cycle_sleep"} \cup BookPcs

IsPrefix(s, t) == Len(s) <= Len(t) /\ SubSeq(t, 1, Len(s)) = s

\* ------------------------------------------------------------------ C1
C1_LoopKeepsGoing ==
    [][ /\ pc \in CyclePcs => pc' \in CyclePcs \cup {"interrupted"}
        /\ pc' = "fatal" => pc \in StartupPcs
        /\ pc = "cycle_except" => pc' = "cycle_sleep" /\ cycle_outcome' = "raised"
        /\ (pc' = "cycle_sleep" /\ pc # "cycle_sleep")
              => cycle_outcome' \in {"completed", "raised"}
        /\ (pc = "cycle_sleep" /\ pc' # "interrupted")
              => /\ pc' = "loop_top"
                 /\ slept' = SEARCH_INTERVAL_MINUTES * 60
                 /\ search_cycle' = search_cycle
        /\ (pc = "loop_top" /\ pc' # "interrupted")
              => pc' = "nav_lookup" /\ search_cycle' = search_cycle + 1
        /\ pc' = "loop_top" => pc \in {"login_finish", "cycle_sleep"}
      ]_vars

C1_NextCycleComes ==
    pc \in CyclePcs ~> (search_cycle = MaxCycles \/ kbd > 0)

\* C1: once the search loop is entered, every cycle -- completed or ended by
\* an Exception -- goes to the one sleep of SEARCH_INTERVAL_MINUTES*60
\* seconds and from there to the next cycle; an Exception in a cycle never
\* leaves the loop and never reaches the restart handler; without a
\* KeyboardInterrupt the next cycle always comes.
C1_EveryCycleIsFollowedByTheNext == C1_LoopKeepsGoing /\ C1_NextCycleComes

\* A cycle ended by an Exception, the sleep is over, the loop is at its top.
C1_Witness ==
    /\ pc = "loop_top"
    /\ search_cycle = 1
    /\ cycle_outcome = "raised"
    /\ slept = SEARCH_INTERVAL_MINUTES * 60
    /\ kbd = 0

C3_BookShiftIsBounded ==
    /\ [](attempts <= MAX_RETRY_ATTEMPTS + 1)
    /\ [](pc = "book_return" /\ clicks = 0 => result = "False")
    /\ [][ /\ pc \in BookPcs => pc' \in BookPcs \cup {"book_return", "interrupted"}
           /\ book_retry' > book_retry
                 => /\ pc = "book_retry"
                    /\ slept' = RETRY_DELAY_SECONDS
                    /\ book_retry' = book_retry + 1
                    /\ attempts' = attempts + 1
           /\ (pc \in BookPcs /\ attempts' # attempts) => book_retry' > book_retry
           /\ (pc = "book_return" /\ idx < Len(shifts) /\ pc' # "interrupted")
                 => /\ pc' = "book_scroll"
                    /\ idx' = idx + 1
                    /\ book_retry' = 0
                    /\ attempts' = 1
         ]_vars
    /\ (pc \in BookPcs ~> pc \in {"book_return", "interrupted"})

\* All attempts on a record failed and a later record is still to come.
C3_Witness ==
    /\ pc = "book_return"
    /\ result = "False"
    /\ attempts = MAX_RETRY_ATTEMPTS + 1
    /\ idx < Len(shifts)

\* ------------------------------------------------------------------ C4
\* C4: login retries only from the email step: it sleeps RETRY_DELAY_SECONDS,
\* refreshes and starts again, at most MAX_RETRY_ATTEMPTS times; the email
\* failure is raised only when the retries are used up; a failure of the
\* password or submit step is raised at once.
C4_LoginRetriesOnlyTheEmailStep ==
    /\ [](login_retry <= MAX_RETRY_ATTEMPTS)
    /\ [][ /\ login_retry' > login_retry
                 => /\ pc = "login_again"
                    /\ pc' = "login_open"
                    /\ slept' = RETRY_DELAY_SECONDS
                    /\ login_retry' = login_retry + 1
           /\ (pc' = "login_again" /\ pc # "login_again")
                 => pc = "login_email" /\ login_retry < MAX_RETRY_ATTEMPTS
           /\ (pc = "login_email" /\ pc' = "fatal")
                 => login_retry = MAX_RETRY_ATTEMPTS
           /\ pc = "login_password"
                 => /\ pc' \in {"login_submit", "fatal", "interrupted"}
                    /\ login_retry' = login_retry
           /\ pc = "login_submit"
                 => /\ pc' \in {"login_finish", "fatal", "interrupted"}
                    /\ login_retry' = login_retry
         ]_vars

\* The email field was missing on every attempt and the failure was raised.
C4_Witness ==
    /\ pc = "fatal"
    /\ raised_from = "login_email"
    /\ login_retry = MAX_RETRY_ATTEMPTS

\* ------------------------------------------------------------------ C5
\* C5 as stated: book_shift appends and returns True only after a click
\* that a found success indicator confirmed; otherwise it returns False and
\* appends nothing.
C5_OnlyConfirmedBookingsAreRecorded ==
    pc = "book_return" =>
        \/ clicks = 1 /\ indicator \in SuccessIndicators
        \/ result = "False" /\ appends = 0

\* C5 amended: book_shift appends and returns True exactly when the button
\* was clicked, whether or not an indicator was found; otherwise it returns
\* False and appends nothing.  Only book_shift's success step changes
\* booked_shifts, by the entry of the record being booked.
C5_ClickedBookingsAreRecorded ==
    /\ [](pc = "book_return" =>
            /\ result \in {"True", "False"}
            /\ result = "True" <=> clicks = 1
            /\ result = "True" <=> appends = 1
            /\ result = "False" <=> appends = 0)
    /\ [][ booked_shifts' # booked_shifts
             => /\ pc = "book_success"
                /\ clicks = 1
                /\ result' = "True"
                /\ appends' = appends + 1
                /\ booked_shifts' =
                     Append(booked_shifts,
                            [title |-> shifts[idx].title,
                             date |-> shifts[idx].date,
                             time |-> "now"])
         ]_vars

\* Clicked, no indicator found, recorded all the same.
C5_Witness ==
    /\ pc = "book_return"
    /\ clicks = 1
    /\ indicator = 0
    /\ result = "True"
    /\ appends = 1

\* ------------------------------------------------------------------ C6
\* C6: every step leaves booked_shifts as it is or adds one entry at its
\* end, and only a step of book_shift adds one.
C6_BookedShiftsIsAppendOnly ==
    [][ /\ IsPrefix(booked_shifts, booked_shifts')
        /\ booked_shifts' # booked_shifts
             => /\ pc \in BookPcs
                /\ Len(booked_shifts') = Len(booked_shifts) + 1
      ]_vars

\* After a restart: two different entries were added, then a cycle failed.
C6_Witness ==
    /\ depth = MaxRestarts
    /\ Len(booked_shifts) >= 2
    /\ booked_shifts[1] # booked_shifts[2]
    /\ pc = "loop_top"
    /\ cycle_outcome = "raised"

\* ------------------------------------------------------------------ C7
StartsCycle == pc = "loop_top" /\ pc' = "nav_lookup"
StartsBooking == pc \in {"cycle_shifts", "book_return", "book_retry"} /\ pc' = "book_scroll"
StartsRestart == pc = "fatal" /\ pc' = "setup_driver"

\* C7: once a KeyboardInterrupt has been delivered no cycle, booking attempt
\* or restart is started, and run_continuous_booking ends with the session
\* of self.driver quit.
C7_InterruptStopsTheBooker ==
    /\ [][ kbd > 0 => ~(StartsCycle \/ StartsBooking \/ StartsRestart) ]_vars
    /\ [](pc \in {"returned", "crashed"} => driver \notin open)

\* ------------------------------------------------------------------ C8
\* The elements get_available_shifts parses: those of the selector it used.
UsedElements ==
    IF rowUsed = 0 THEN <<>> ELSE rowReturned[Len(rowReturned)].result.rows

\* C8: get_available_shifts returns one record per element found, in order;
\* each of title, location, date, time and pay is the text found or
\* 'Unknown', field by field; when every lookup of rows fails the result is
\* the empty list.
C8_RecordsHaveAllFields ==
    pc = "cycle_shifts" =>
        /\ Len(shifts) = Len(UsedElements)
        /\ \A i \in 1..Len(shifts) :
            /\ DOMAIN shifts[i] =
                 {"index", "element", "title", "location", "date", "time", "pay"}
            /\ shifts[i].index = i - 1
            /\ shifts[i].element = UsedElements[i]
            /\ \A j \in 1..Len(Fields) :
                 shifts[i][Fields[j]] =
                    IF UsedElements[i][Fields[j]] = NoElem
                      THEN "Unknown"
                      ELSE UsedElements[i][Fields[j]]
        /\ (\A k \in 1..Len(rowReturned) : rowReturned[k].result.raised)
              => shifts = <<>>

\* Two records, each with some lookups failed and the others kept.
C8_Witness ==
    /\ pc = "cycle_shifts"
    /\ Len(shifts) = 2
    /\ shifts[1].title = "Unknown" /\ shifts[1].date = "12 May"
    /\ shifts[1].location = "Worcester" /\ shifts[1].pay = "GBP 15"
    /\ shifts[2].title = "HCA" /\ shifts[2].time = "Unknown"
    /\ shifts[2].pay = "Unknown" /\ shifts[2].date = "12 May"

\* ------------------------------------------------------------------ C9
InOrder(tried) == \A i \in 1..Len(tried) : tried[i] = i

\* The row selectors of get_available_shifts: tried in order, the first that
\* returns rows is used.
RowSelectorsFirstWins ==
    /\ InOrder([i \in 1..Len(rowReturned) |-> rowReturned[i].selector])
    /\ \A i \in 1..(Len(rowReturned) - 1) : rowReturned[i].result.rows = <<>>
    /\ pc = "cycle_shifts" =>
        /\ rowUsed # 0 =>
             /\ rowUsed = Len(rowReturned)
             /\ rowReturned[rowUsed].result.rows # <<>>
        /\ rowUsed = 0 =>
             /\ Len(rowReturned) = Cardinality(RowSelectors)
             /\ rowReturned[Len(rowReturned)].result.rows = <<>>
        /\ Len(shifts) = Len(UsedElements)
        /\ \A i \in 1..Len(shifts) : shifts[i].element = UsedElements[i]

\* C9 as stated: the link clicked is the first whose lookup succeeded, and
\* the direct URL is loaded exactly when no lookup succeeded.
C9_FirstFoundLinkIsClicked ==
    /\ InOrder(navTried)
    /\ pc = "nav_finish" =>
        /\ navClicked = navFound
        /\ navDirect <=> navFound = 0
    /\ RowSelectorsFirstWins

\* C9 amended: the link selectors are tried in order; the link clicked is
\* the first whose lookup and click both succeeded, no selector is tried
\* after it, and the direct URL is loaded exactly when no click succeeded
\* (then every selector was tried); the row selectors as stated.
C9_FirstClickedLinkWins ==
    /\ InOrder(navTried)
    /\ pc \in {"nav_lookup", "nav_click", "nav_direct"} => navClicked = 0 /\ ~navDirect
    /\ pc = "nav_finish" =>
        /\ navClicked # 0 => navTried[Len(navTried)] = navClicked
        /\ navDirect <=> navClicked = 0
        /\ navDirect => Len(navTried) = Cardinality(LinkSelectors)
    /\ RowSelectorsFirstWins

\* The first link was found but its click raised; the second was clicked.
C9_Witness ==
    /\ pc = "nav_finish"
    /\ navFound = 1
    /\ navClicked = 2
    /\ navTried = <<1, 2>>

\* ----------------------------------------------------------------- C10
\* C10: in one top-level book_shift the button is clicked at most once and
\* at most one entry is appended; after a click no retry is started.
C10_AtMostOneClickAndOneEntry ==
    /\ clicks <= 1
    /\ appends <= 1
    /\ clicks = 1 => pc \notin {"book_scroll", "book_click", "book_retry"}
    /\ appends = 1 => clicks = 1 /\ pc \notin BookPcs

\* The last allowed retry clicked, and its one entry was appended.
C10_Witness ==
    /\ pc = "book_return"
    /\ attempts = MAX_RETRY_ATTEMPTS + 1
    /\ clicks = 1
    /\ appends = 1

\* ----------------------------------------------------------------- C11
\* C11: at most one browser session is open at any time (so every session
\* opened earlier has been quit when setup_driver opens a new one), and
\* when the outermost run_continuous_booking has ended no session that was
\* opened is still open.
C11_AtMostOneSessionIsOpen ==
    /\ Cardinality(open) <= 1
    /\ pc \in {"returned", "crashed"} => open = {}

\* ----------------------------------------------------------------- C12
\* C12: booked_shifts never holds more than MAX_SHIFTS_TO_BOOK entries, and
\* once it holds that many no book_shift call is started, in this cycle or
\* in a later one.
C12_BookingsStayWithinTheMaximum ==
    /\ [](Len(booked_shifts) <= MAX_SHIFTS_TO_BOOK)
    /\ [][ Len(booked_shifts) >= MAX_SHIFTS_TO_BOOK => ~StartsBooking ]_vars

====
